---- MODULE Spec2Model ----
(***************************************************************************)
(* Model of the elli_connect device connection.                            *)
(*                                                                         *)
(* Spec     : src/elli/elli_connection.rs  (ElliConnection handle,         *)
(*            ConnectionManager task, ConnectionReceiver task), the        *)
(*            connection used by main.rs and update.rs.                    *)
(* SpecMod  : src/elli/mod.rs and src/elli/connection.rs (ElliConnection   *)
(*            handle, ElliSocket task, ElliReceiver task), the connection  *)
(*            held by state.rs.                                            *)
(*                                                                         *)
(* The caller, the manager task and the receiver task are three            *)
(* sequential processes; every await point of a handler is a process       *)
(* position (hpc, mpc, rpc).  The device and the socket are the            *)
(* environment: the outcome of every socket write and the next inbound     *)
(* frame are chosen nondeterministically.                                   *)
(***************************************************************************)
EXTENDS Naturals, Sequences, FiniteSets, TLC

\* ---------------------------------------------------------------- bounds
MaxCalls == 3      \* authenticate()/write_pixel() calls issued on one handle
MaxFrames == 2     \* inbound frames read on one connection
ChannelCap == 1    \* mpsc capacity (32 in the code), scaled down
MaxCancels == 1    \* calls the caller abandons on one handle
MaxCodeLen == 19   \* characters of a pairing code given to from_ccc

\* ------------------------------------------------------------ data model
\* ElliConfig::from_ccc("0FBL3E2B3UPU4R9Z"): b_code = [0,8), d_code = [8,16)
Config == [b_code |-> "0FBL3E2B", d_code |-> "3UPU4R9Z"]

\* the PixelData values of the image the caller writes, pixel after pixel
\* (update.rs: for (x, y, rgba) in downsized_image.pixels())
Image ==
  << [hue |-> 10, sat |-> 200, val |-> 255, row |-> 0, col |-> 1],
     [hue |-> 128, sat |-> 64, val |-> 32, row |-> 3, col |-> 2] >>

NoPixel == [hue |-> 0, sat |-> 0, val |-> 0, row |-> 0, col |-> 0]

\* values of the "connection" field of an authentication reply
ConnectionValues == {"ok", "denied"}

\* ------------------------------------------------------------ ElliConfig
\* A &str is a sequence of characters; its UTF-8 encoding gives every
\* character one byte, except Wide, which stands for the characters that
\* take two bytes.
Wide == "U+00E4"
Digits == << "0", "1", "2", "3", "4", "5", "6", "7", "8", "9" >>
IsDigit(c) == \E i \in 1..10 : Digits[i] = c
DigitValue(c) == (CHOOSE i \in 1..10 : Digits[i] = c) - 1

Width(c) == IF c = Wide THEN 2 ELSE 1

\* the bytes of s: byte k of character ch
RECURSIVE Utf8(_)
Utf8(s) ==
  IF s = <<>> THEN <<>>
  ELSE [k \in 1..Width(Head(s)) |-> [ch |-> Head(s), k |-> k]] \o Utf8(Tail(s))

\* str::is_char_boundary for the byte offset i of the bytes bs
IsCharBoundary(bs, i) ==
  \/ i = 0
  \/ i = Len(bs)
  \/ i < Len(bs) /\ bs[i + 1].k = 1

\* the characters of a byte range that starts and ends on a boundary
FromUtf8(bs) ==
  LET firsts == SelectSeq(bs, LAMBDA x : x.k = 1)
  IN [i \in 1..Len(firsts) |-> firsts[i].ch]

None == [some |-> FALSE, val |-> <<>>]
Some(v) == [some |-> TRUE, val |-> v]

\* str::get(a..b): None when the range leaves the string or cuts a character
StrGetLenient(s, a, b) ==
  LET bs == Utf8(s)
      e == IF b <= Len(bs) THEN b ELSE Len(bs)
  IN Some(FromUtf8(SubSeq(bs, a + 1, e)))
StrGet(s, a, b) ==
  LET bs == Utf8(s)
  IN IF a <= b /\ b <= Len(bs) /\ IsCharBoundary(bs, a) /\ IsCharBoundary(bs, b)
       THEN Some(FromUtf8(SubSeq(bs, a + 1, b)))
       ELSE None

\* the value of a sequence of digits
RECURSIVE DecimalValue(_)
DecimalValue(ds) ==
  IF ds = <<>> THEN 0
  ELSE 10 * DecimalValue(SubSeq(ds, 1, Len(ds) - 1)) + DigitValue(ds[Len(ds)])

\* str::parse::<usize>: an optional "+", then one or more digits
ParseUsize(s) ==
  LET ds == IF s # <<>> /\ Head(s) = "+" THEN Tail(s) ELSE s
  IN IF ds # <<>> /\ \A i \in DOMAIN ds : IsDigit(ds[i])
       THEN Some(DecimalValue(ds)) ELSE None

ParseError == [tag |-> "Err", err |-> "ParseError"]

\* ElliConfig::parse_ccc: (b_code, d_code, size) or ParseError
parse_ccc_shifted(code) ==
  LET b == StrGet(code, 0, 8)
      dd == StrGet(code, 7, 15)
      sz == StrGet(code, 16, 18)
  IN IF ~b.some \/ ~dd.some THEN ParseError
     ELSE [tag |-> "Ok", b_code |-> b.val, d_code |-> dd.val,
           size |-> IF sz.some THEN ParseUsize(sz.val) ELSE None]
parse_ccc(code) ==
  LET b == StrGet(code, 0, 8)
      dd == StrGet(code, 8, 16)
      sz == StrGet(code, 16, 18)
  IN IF ~b.some THEN ParseError
     ELSE IF ~dd.some THEN ParseError
     ELSE [tag |-> "Ok", b_code |-> b.val, d_code |-> dd.val,
           size |-> IF sz.some THEN ParseUsize(sz.val) ELSE None]

\* ElliConfig::from_ccc: the address, with size 5 when none was parsed
from_ccc_default0(code) ==
  LET r == parse_ccc(code)
  IN IF r.tag = "Err" THEN r
     ELSE [tag |-> "Ok", host |-> "wss://ws.elemon.de:443", b_code |-> r.b_code,
           d_code |-> r.d_code, size |-> IF r.size.some THEN r.size.val ELSE 0]
from_ccc(code) ==
  LET r == parse_ccc(code)
  IN IF r.tag = "Err" THEN r
     ELSE [tag |-> "Ok", host |-> "wss://ws.elemon.de:443", b_code |-> r.b_code,
           d_code |-> r.d_code, size |-> IF r.size.some THEN r.size.val ELSE 5]

\* the pairing code of the tests
PairingCode ==
  << "0", "F", "B", "L", "3", "E", "2", "B", "3", "U", "P", "U", "4", "R", "9", "Z" >>

\* pairing codes given to from_ccc: a prefix of PairingCode, continued by
\* characters of SizeChars, with at most one character replaced by Wide
SizeChars == { "0", "5", "7", "+", "-", "x" }
Code(n, k, t) ==
  [ i \in 1..n |-> IF i = k THEN Wide
                   ELSE IF i <= Len(PairingCode) THEN PairingCode[i]
                   ELSE t[i - Len(PairingCode)] ]
Codes ==
  { Code(n, k, t) : n \in 0..MaxCodeLen, k \in 0..MaxCodeLen,
                    t \in [1..(MaxCodeLen - Len(PairingCode)) -> SizeChars] }

\* ------------------------------------------------------------- PixelData
Max2(a, b) == IF a >= b THEN a ELSE b
Min2(a, b) == IF a <= b THEN a ELSE b

\* `x as u8` of a non-negative f32: saturating
AsU8(x) == IF x > 255 THEN 255 ELSE x

\* (num / den * 255.0).round() as u8 for the ratio num/den >= 0.  f32::round
\* rounds half away from zero; where the exact product lies on a half the
\* f32 product may fall on either side of it, so both neighbours are results.
Scale256(num, den) ==
  LET q == (2 * 256 * num + den) \div (2 * den)
      tie == (2 * 256 * num + den) % (2 * den) = 0
  IN IF tie THEN { AsU8(q - 1), AsU8(q) } ELSE { AsU8(q) }
Scale255(num, den) ==
  LET q == (2 * 255 * num + den) \div (2 * den)
      tie == (2 * 255 * num + den) % (2 * den) = 0
  IN IF tie THEN { AsU8(q - 1), AsU8(q) } ELSE { AsU8(q) }

\* the hue as a multiple of 1/(6 * diff), for the bytes r, g, b with maximum
\* mx and diff = mx - min > 0: bb - gg, 1/3 + rr - bb or 2/3 + gg - rr with
\* diff_c(c) = (v - c) / 6 / diff + 0.5, then wrapped into [0, 1]
HueSixths(r, g, b, mx, diff) ==
  LET h == IF r = mx THEN g - b
           ELSE IF g = mx THEN 2 * diff + b - r
           ELSE 4 * diff + r - g
  IN IF h < 0 THEN h + 6 * diff
     ELSE IF h > 6 * diff THEN h - 6 * diff
     ELSE h

\* PixelData::rgb_to_hsv: the (hue, sat, val) it can return for (r, g, b)
rgb_to_hsv(r, g, b) ==
  LET mx == Max2(Max2(r, g), b)
      mn == Min2(Min2(r, g), b)
      diff == mx - mn
  IN IF diff = 0
       THEN { << h, sa, v >> : h \in Scale255(0, 1), sa \in Scale255(0, 1),
                               v \in Scale255(mx, 255) }
       ELSE { << h, sa, v >> : h \in Scale255(HueSixths(r, g, b, mx, diff), 6 * diff),
                               sa \in Scale255(diff, mx),
                               v \in Scale255(mx, 255) }

\* the bytes the conversion is applied to: every gray, and the triples of
\* SampleBytes
SampleBytes == { 0, 1, 2, 127, 128, 254, 255 }
RgbInputs ==
  { << v, v, v >> : v \in 0..255 } \cup (SampleBytes \X SampleBytes \X SampleBytes)

\* ------------------------------------------------- outbound wire encoding
\* serde_json::to_string of a struct: the fields in declaration order,
\* modelled as a sequence of <<key, value>> pairs.
KV(k, v) == <<k, v>>

\* value of key k in the JSON object j (a sequence of pairs); <<>> if absent
Field(j, k) ==
  LET hits == { i \in 1..Len(j) : j[i][1] = k }
  IN IF hits = {} THEN <<>> ELSE <<j[CHOOSE i \in hits : TRUE][2]>>

HasKey(j, k) == \E i \in 1..Len(j) : j[i][1] = k

AuthMessage(config) ==
  << KV("request", "authenticate"), KV("param", "ReqL1"),
     KV("deviceType", "TetrisController"),
     KV("address", config.d_code), KV("from", config.b_code) >>

RequestMessage(request, param, config) ==
  << KV("request", request), KV("param", param),
     KV("from", config.b_code), KV("to", config.d_code) >>

PixelDataJson(p) ==
  << KV("hue", p.hue), KV("sat", p.sat), KV("val", p.val),
     KV("row", p.row), KV("col", p.col) >>

\* #[serde(flatten)] pixel, then #[serde(flatten)] request
PixelMessage(config, p) ==
  PixelDataJson(p) \o RequestMessage("write", "pixel", config)

TextFrame(j) == [kind |-> "Text", body |-> j]
CloseFrame == [kind |-> "Close", body |-> <<>>]

\* -------------------------------------------------- inbound wire decoding
\* Inbound JSON objects are records: DOMAIN j is the set of keys present.
InboundJson ==
  { [connection |-> c] : c \in ConnectionValues } \cup
  { [param |-> "name", request |-> "read", name |-> "Elli", to |-> "0FBL3E2B"],
    [param |-> "name", request |-> "read", name |-> "Tetris", to |-> "0FBL3E2B"],
    [param |-> "pixel", row |-> "0", col |-> "1", hue |-> "10", sat |-> "200",
     val |-> "255", to |-> "0FBL3E2B"],
    [hello |-> "world"] }

\* from_str::<SocketMessage>: untagged, the variants are tried in order.
\* Authentication matches any object with a "connection" field; Write is
\* tagged by "param"; the tag is consumed before the variant is decoded, so
\* PixelMessage (whose flattened RequestMessage needs request, param, from,
\* to) cannot be completed and DeviceNameMessage needs request, name, to.
SocketMessage(j) ==
  IF "connection" \in DOMAIN j
    THEN [variant |-> "Authentication", connection |-> j.connection]
  ELSE IF "param" \in DOMAIN j /\ j.param = "name"
          /\ {"request", "name", "to"} \subseteq DOMAIN j
    THEN [variant |-> "DeviceName", connection |-> ""]
  ELSE IF "param" \in DOMAIN j /\ j.param = "pixel"
          /\ {"hue", "sat", "val", "row", "col", "request", "param", "from", "to"}
               \subseteq (DOMAIN j \ {"param"})
    THEN [variant |-> "Pixel", connection |-> ""]
  ELSE [variant |-> "Error", connection |-> ""]

\* tungstenite Message kinds the reader can yield, plus a transport error
InboundFrames ==
  { [kind |-> "Text", json |-> j] : j \in InboundJson } \cup
  { [kind |-> k, json |-> [none |-> ""]] : k \in {"Ping", "Pong", "Binary", "Close", "ReadError"} }

\* ------------------------------------------------------------------ state
VARIABLES
  hpc,                  \* caller position in the handle's methods
  connection_status,    \* ElliConnection.connection_status
  calls,                \* every authenticate()/write_pixel() call, in issue order
  closeRet,             \* result of close(): "none", "Ok", "Err"
  rx_cmd,               \* command channel: ids of the queued calls
  rx_socket,            \* event channel receiver -> manager
  close_manager,        \* oneshot: "armed", "sent", "dropped"
  close_receiver,       \* oneshot: "armed", "sent", "dropped"
  pending_auth_request, \* 0 (None) or the id of the call whose reply is held
  mpc,                  \* manager position
  mcur,                 \* id of the command the manager is handling, 0 if none
  writer,               \* frames written to the socket, in order
  rpc,                  \* receiver position
  rheld,                \* event the receiver is blocked sending, <<>> if none
  nframes,              \* inbound frames read so far
  stream_ended,         \* the inbound stream has ended (reader.next() is None)
  status,               \* ElliSocket.status (elli/connection.rs)
  device_name,          \* ElliSocket.device_name (elli/connection.rs)
  ccc,                  \* the pairing code given to from_ccc
  parsed,               \* the Result of from_ccc(ccc)
  rgb,                  \* the (r, g, b) given to rgb_to_hsv
  hsv,                  \* the (hue, sat, val) rgb_to_hsv returned
  expires_in,           \* TokenResponse.expires_in given to calculate_expiry
  now,                  \* Instant::now() read by calculate_expiry, in seconds
  expires_at            \* what calculate_expiry returned, or how it ended

\* the connection, and the arguments and results of the pure functions
conn == << hpc, connection_status, calls, closeRet, rx_cmd, rx_socket,
           close_manager, close_receiver, pending_auth_request, mpc, mcur,
           writer, rpc, rheld, nframes, stream_ended, status, device_name >>
funs == << ccc, parsed, rgb, hsv, expires_in, now, expires_at >>
vars == << conn, funs >>

\* oneshot reply channel states
Open == [tag |-> "open", val |-> ""]
Ok(v) == [tag |-> "Ok", val |-> v]
Err(e) == [tag |-> "Err", val |-> e]
SenderDropped == [tag |-> "closed", val |-> ""]

ManagerEnded == {"done", "panicked"}
ReceiverEnded == {"done", "panicked"}

Cur == Len(calls)

\* the pixel of the next write: the image is written over and over
NextPixel ==
  LET written == Cardinality({ i \in DOMAIN calls : calls[i].op \in {"write_pixel", "send_pixel"} })
  IN Image[(written % Len(Image)) + 1]

NewCall(op, p, reply, ret) ==
  [op |-> op, pixel |-> p, reply |-> reply, ret |-> ret, rx_alive |-> TRUE,
   answer |-> "", sent |-> FALSE]

\* dropping a oneshot::Sender without sending wakes the receiver with RecvError
DropSendersKept(cs, ids) == cs
DropSenders(cs, ids) ==
  [ i \in DOMAIN cs |->
      IF i \in ids /\ cs[i].reply.tag = "open"
        THEN [cs[i] EXCEPT !.reply = SenderDropped] ELSE cs[i] ]

Range(s) == { s[i] : i \in DOMAIN s }

\* everything the manager owns that holds a reply sender
ManagerHeld == Range(rx_cmd) \cup ({pending_auth_request, mcur} \ {0})

\* not called yet
NotCalled == [tag |-> "none"]
NoHsv == <<>>

\* ------------------------------------------------------------------------
\* u64 values of spotify.rs: four limbs of 16 bits, least significant first
\* ------------------------------------------------------------------------
Limb == 65536
Limbs == 4
U64(n) == << n % Limb, n \div Limb, 0, 0 >>
U64Max == << Limb - 1, Limb - 1, Limb - 1, Limb - 1 >>
I64Max == << Limb - 1, Limb - 1, Limb - 1, (Limb \div 2) - 1 >>

\* a - b over the limbs from i on; borrow = 1 when a < b (the u64 wraps)
RECURSIVE SubU64(_, _, _, _)
SubU64(a, b, i, borrow) ==
  IF i > Limbs THEN [limbs |-> <<>>, borrow |-> borrow]
  ELSE LET dd == a[i] - b[i] - borrow
           rest == SubU64(a, b, i + 1, IF dd < 0 THEN 1 ELSE 0)
       IN [limbs |-> << IF dd < 0 THEN dd + Limb ELSE dd >> \o rest.limbs,
           borrow |-> rest.borrow]

\* a + b over the limbs from i on; carry = 1 when the sum passes 2^64 - 1
RECURSIVE AddU64(_, _, _, _)
AddU64(a, b, i, carry) ==
  IF i > Limbs THEN [limbs |-> <<>>, carry |-> carry]
  ELSE LET ss == a[i] + b[i] + carry
           rest == AddU64(a, b, i + 1, IF ss >= Limb THEN 1 ELSE 0)
       IN [limbs |-> << ss % Limb >> \o rest.limbs, carry |-> rest.carry]

\* Instant + Duration: the seconds of an Instant are an i64, and the sum
\* panics ("overflow when adding duration to instant") beyond i64::MAX
InstantAdd(now_, secs) ==
  LET sum == AddU64(U64(now_), secs, 1, 0)
  IN IF sum.carry = 1 \/ sum.limbs[Limbs] >= Limb \div 2
       THEN [tag |-> "panic", at |-> "addition"]
       ELSE [tag |-> "Ok", instant |-> sum.limbs]

\* SpotifyAccess::calculate_expiry: Instant::now() +
\* Duration::from_secs(expires_in - 120). The subtraction is unchecked u64
\* arithmetic: with overflow checks (debug profile) an underflow panics,
\* without them (release profile) it wraps. Both outcomes are returned.
calculate_expiry(expires_in_, now_) ==
  LET diff == SubU64(expires_in_, U64(120), 1, 0)
  IN { IF diff.borrow = 1 THEN [tag |-> "panic", at |-> "subtraction"]
                        ELSE InstantAdd(now_, diff.limbs),
       InstantAdd(now_, diff.limbs) }

\* the connection is built from the config of the pairing code, and no
\* conversion is in progress
ExpiryDone ==
  /\ expires_in = U64(3600)
  /\ now = 0
  /\ expires_at = [tag |-> "Ok", instant |-> U64(3480)]

FunsDone ==
  /\ ccc = PairingCode
  /\ parsed = from_ccc(PairingCode)
  /\ rgb = << 0, 0, 0 >>
  /\ hsv = << 0, 0, 0 >>
  /\ ExpiryDone

Init ==
  /\ hpc = "idle"
  /\ connection_status = "Connected"
  /\ calls = <<>>
  /\ closeRet = "none"
  /\ rx_cmd = <<>>
  /\ rx_socket = <<>>
  /\ close_manager = "armed"
  /\ close_receiver = "armed"
  /\ pending_auth_request = 0
  /\ mpc = "select"
  /\ mcur = 0
  /\ writer = <<>>
  /\ rpc = "loop"
  /\ rheld = <<>>
  /\ nframes = 0
  /\ stream_ended = FALSE
  /\ status = "none"
  /\ device_name = ""
  /\ FunsDone


\* ------------------------------------------------------ Connection Handle
\* cmd_tx.send(cmd).await fails once the manager has dropped rx_cmd, waits
\* while the channel is full, and otherwise queues the command.
SendCommand(op, p, waiting) ==
  IF mpc \in ManagerEnded
    THEN /\ calls' = Append(calls, NewCall(op, p, SenderDropped, "Err"))
         /\ UNCHANGED << hpc, rx_cmd >>
    ELSE /\ Len(rx_cmd) < ChannelCap
         /\ calls' = Append(calls, NewCall(op, p, Open, "pending"))
         /\ rx_cmd' = Append(rx_cmd, Cur + 1)
         /\ hpc' = waiting

\* ElliConnection::authenticate, up to res_rx.await
Authenticate ==
  /\ hpc = "idle"
  /\ Cur < MaxCalls
  /\ SendCommand("authenticate", NoPixel, "authenticate")
  /\ UNCHANGED funs
  /\ UNCHANGED << connection_status, closeRet, rx_socket, close_manager,
                  close_receiver, pending_auth_request, mpc, mcur, writer,
                  rpc, rheld, nframes, stream_ended, status, device_name >>

\* res_rx.await?? : RecvError and CommandError both return Err; an Ok(status)
\* of either status is stored and the call returns Ok(())
AuthenticateStatusBug(reply, old) == IF reply.val = "Authenticated" THEN reply.val ELSE old
AuthenticateStatus(reply, old) == reply.val

AuthenticateReturn ==
  /\ hpc = "authenticate"
  /\ calls[Cur].reply.tag # "open"
  /\ IF calls[Cur].reply.tag = "Ok"
       THEN /\ connection_status' = AuthenticateStatus(calls[Cur].reply, connection_status)
            /\ calls' = [calls EXCEPT ![Cur].ret = "Ok"]
       ELSE /\ calls' = [calls EXCEPT ![Cur].ret = "Err"]
            /\ UNCHANGED connection_status
  /\ hpc' = "idle"
  /\ UNCHANGED funs
  /\ UNCHANGED << closeRet, rx_cmd, rx_socket, close_manager, close_receiver,
                  pending_auth_request, mpc, mcur, writer, rpc, rheld, nframes, stream_ended, status, device_name >>

\* ElliConnection::write_pixel, up to res_rx.await
WritePixel(p) ==
  /\ hpc = "idle"
  /\ Cur < MaxCalls
  /\ SendCommand("write_pixel", p, "write_pixel")
  /\ UNCHANGED funs
  /\ UNCHANGED << connection_status, closeRet, rx_socket, close_manager,
                  close_receiver, pending_auth_request, mpc, mcur, writer,
                  rpc, rheld, nframes, stream_ended, status, device_name >>

WritePixelReturn ==
  /\ hpc = "write_pixel"
  /\ calls[Cur].reply.tag # "open"
  /\ calls' = [calls EXCEPT ![Cur].ret = IF calls[Cur].reply.tag = "Ok" THEN "Ok" ELSE "Err"]
  /\ hpc' = "idle"
  /\ UNCHANGED funs
  /\ UNCHANGED << connection_status, closeRet, rx_cmd, rx_socket, close_manager,
                  close_receiver, pending_auth_request, mpc, mcur, writer,
                  rpc, rheld, nframes, stream_ended, status, device_name >>

\* oneshot::Sender::send: the value is stored unless the receiver is gone
SignalBug(ch) == ch
Signal(ch) == IF ch = "armed" THEN "sent" ELSE ch

\* ElliConnection::close: both signals, then the receiver's join handle
Close ==
  /\ hpc = "idle"
  /\ close_receiver' = Signal(close_receiver)
  /\ close_manager' = Signal(close_manager)
  /\ hpc' = "join_receiver"
  /\ UNCHANGED funs
  /\ UNCHANGED << connection_status, calls, closeRet, rx_cmd, rx_socket,
                  pending_auth_request, mpc, mcur, writer, rpc, rheld, nframes, stream_ended, status, device_name >>

\* self.recv_join_handle.await? : a JoinError returns at once
CloseJoinReceiver ==
  /\ hpc = "join_receiver"
  /\ rpc \in ReceiverEnded
  /\ IF rpc = "panicked"
       THEN hpc' = "closed" /\ closeRet' = "Err"
       ELSE hpc' = "join_manager" /\ UNCHANGED closeRet
  /\ UNCHANGED funs
  /\ UNCHANGED << connection_status, calls, rx_cmd, rx_socket, close_manager,
                  close_receiver, pending_auth_request, mpc, mcur, writer,
                  rpc, rheld, nframes, stream_ended, status, device_name >>

\* self.cmd_join_handle.await? ; Ok(())
CloseJoinManager ==
  /\ hpc = "join_manager"
  /\ mpc \in ManagerEnded
  /\ closeRet' = IF mpc = "panicked" THEN "Err" ELSE "Ok"
  /\ hpc' = "closed"
  /\ UNCHANGED funs
  /\ UNCHANGED << connection_status, calls, rx_cmd, rx_socket, close_manager,
                  close_receiver, pending_auth_request, mpc, mcur, writer,
                  rpc, rheld, nframes, stream_ended, status, device_name >>

\* the handle goes out of scope without close(): all its senders are dropped
DropSignalBug(ch) == ch
DropSignal(ch) == IF ch = "armed" THEN "dropped" ELSE ch

DropHandle ==
  /\ hpc = "idle"
  /\ hpc' = "dropped"
  /\ close_receiver' = DropSignal(close_receiver)
  /\ close_manager' = DropSignal(close_manager)
  /\ UNCHANGED funs
  /\ UNCHANGED << connection_status, calls, closeRet, rx_cmd, rx_socket,
                  pending_auth_request, mpc, mcur, writer, rpc, rheld, nframes, stream_ended, status, device_name >>


\* ------------------------------------------------------ ConnectionManager
\* the task ends (break or panic): rx_cmd, rx_socket and the pending reply
\* are dropped with everything still queued in them
ManagerExit(cs, how) ==
  /\ calls' = DropSenders(cs, ManagerHeld)
  /\ rx_cmd' = <<>>
  /\ rx_socket' = <<>>
  /\ pending_auth_request' = 0
  /\ mcur' = 0
  /\ mpc' = how

\* resp.send(v).unwrap(): panics when the caller's receiver is gone
RespondBug(cs, id, v) ==
  /\ calls' = cs
  /\ mpc' = "select"
  /\ mcur' = 0
  /\ UNCHANGED << rx_cmd, rx_socket, pending_auth_request >>

Respond(cs, id, v) ==
  IF cs[id].rx_alive
    THEN /\ calls' = [cs EXCEPT ![id].reply = v]
         /\ mpc' = "select"
         /\ mcur' = 0
         /\ UNCHANGED << rx_cmd, rx_socket, pending_auth_request >>
    ELSE ManagerExit(cs, "panicked")

\* select! branch: Some(cmd) = self.rx_cmd.recv(), and handle_recv_cmd's match
HandleRecvCmdBug ==
  /\ mpc = "select"
  /\ rx_cmd # <<>>
  /\ mcur' = Head(rx_cmd)
  /\ rx_cmd' = rx_cmd
  /\ mpc' = calls[Head(rx_cmd)].op
  /\ UNCHANGED funs
  /\ UNCHANGED << hpc, connection_status, calls, closeRet, rx_socket,
                  close_manager, close_receiver, pending_auth_request,
                  writer, rpc, rheld, nframes, stream_ended, status, device_name >>

HandleRecvCmd ==
  /\ mpc = "select"
  /\ rx_cmd # <<>>
  /\ mcur' = Head(rx_cmd)
  /\ rx_cmd' = Tail(rx_cmd)
  /\ mpc' = calls[Head(rx_cmd)].op
  /\ UNCHANGED funs
  /\ UNCHANGED << hpc, connection_status, calls, closeRet, rx_socket,
                  close_manager, close_receiver, pending_auth_request,
                  writer, rpc, rheld, nframes, stream_ended, status, device_name >>

\* ConnectionManager::authenticate, from the completion of writer.send
ManagerAuthenticateWith(sent) ==
  /\ mpc = "authenticate"
  /\ IF sent
       THEN /\ writer' = Append(writer, TextFrame(AuthMessage(Config)))
            /\ calls' = DropSenders([calls EXCEPT ![mcur].sent = TRUE],
                                    {pending_auth_request} \ {0, mcur})
            /\ pending_auth_request' = mcur
            /\ mpc' = "select"
            /\ mcur' = 0
            /\ UNCHANGED << rx_cmd, rx_socket >>
       ELSE /\ Respond(calls, mcur, Err("transport"))
            /\ UNCHANGED writer
  /\ UNCHANGED funs
  /\ UNCHANGED << hpc, connection_status, closeRet, close_manager,
                  close_receiver, rpc, rheld, nframes, stream_ended, status,
                  device_name >>

\* the socket write succeeds or fails
ManagerAuthenticate == \E sent \in BOOLEAN : ManagerAuthenticateWith(sent)

\* the frame ConnectionManager::write_pixel builds for PixelData p
PixelFrameSwapped(config, p) == TextFrame(PixelDataJson(p) \o
  << KV("request", "write"), KV("param", "pixel"),
     KV("from", config.d_code), KV("to", config.b_code) >>)
PixelFrame(config, p) == TextFrame(PixelMessage(config, p))

\* ConnectionManager::write_pixel, from the completion of writer.send
ManagerWritePixelWith(sent) ==
  /\ mpc = "write_pixel"
  /\ IF sent
       THEN /\ writer' = Append(writer, PixelFrame(Config, calls[mcur].pixel))
            /\ Respond([calls EXCEPT ![mcur].sent = TRUE], mcur, Ok("unit"))
       ELSE /\ Respond(calls, mcur, Err("transport"))
            /\ UNCHANGED writer
  /\ UNCHANGED funs
  /\ UNCHANGED << hpc, connection_status, closeRet, close_manager,
                  close_receiver, rpc, rheld, nframes, stream_ended, status,
                  device_name >>

\* the socket write succeeds or fails
ManagerWritePixel == \E sent \in BOOLEAN : ManagerWritePixelWith(sent)

\* handle_recv_socket_msg: the status computed from the device's answer
StatusOfAnswerBug(st) == IF st # "ok" THEN "Authenticated" ELSE "Error"
StatusOfAnswer(st) == IF st = "ok" THEN "Authenticated" ELSE "Error"

\* tx.send(Ok(connection_status)): the reply carries Ok for either status
AuthReplyBug(connection_status_) == Err("authentication")
AuthReplyLost(connection_status_) == Open
AuthReply(connection_status_) == Ok(connection_status_)

\* select! branch: Some(recv) = self.rx_socket.recv(), handle_recv_socket_msg
HandleRecvSocketMsgWhenPending ==
  /\ mpc = "select"
  /\ rx_socket # <<>>
  /\ pending_auth_request # 0
  /\ IF calls[pending_auth_request].rx_alive
       THEN /\ calls' = [calls EXCEPT
                           ![pending_auth_request].reply =
                               AuthReply(StatusOfAnswer(Head(rx_socket).status)),
                           ![pending_auth_request].answer = Head(rx_socket).status]
            /\ pending_auth_request' = 0
            /\ rx_socket' = Tail(rx_socket)
            /\ UNCHANGED << rx_cmd, mpc, mcur >>
       ELSE ManagerExit(calls, "panicked")
  /\ UNCHANGED funs
  /\ UNCHANGED << hpc, connection_status, closeRet, close_manager,
                  close_receiver, writer, rpc, rheld, nframes, stream_ended, status, device_name >>

HandleRecvSocketMsg ==
  /\ mpc = "select"
  /\ rx_socket # <<>>
  /\ LET st == Head(rx_socket).status
         id == pending_auth_request
     IN IF id # 0
          THEN IF calls[id].rx_alive
                 THEN /\ calls' = [calls EXCEPT
                                     ![id].reply = AuthReply(StatusOfAnswer(st)),
                                     ![id].answer = st]
                      /\ pending_auth_request' = 0
                      /\ rx_socket' = Tail(rx_socket)
                      /\ UNCHANGED << rx_cmd, mpc, mcur >>
                 ELSE ManagerExit(calls, "panicked")
          ELSE /\ rx_socket' = Tail(rx_socket)
               /\ UNCHANGED << calls, rx_cmd, pending_auth_request, mpc, mcur >>
  /\ UNCHANGED funs
  /\ UNCHANGED << hpc, connection_status, closeRet, close_manager,
                  close_receiver, writer, rpc, rheld, nframes, stream_ended, status, device_name >>

\* select! branch: _ = &mut self.rx_close (a sent value or a dropped sender)
ManagerRecvClose ==
  /\ mpc = "select"
  /\ close_manager # "armed"
  /\ mpc' = "closing"
  /\ UNCHANGED funs
  /\ UNCHANGED << hpc, connection_status, calls, closeRet, rx_cmd, rx_socket,
                  close_manager, close_receiver, pending_auth_request, mcur,
                  writer, rpc, rheld, nframes, stream_ended, status, device_name >>

\* _ = self.writer.close().await; break
ManagerCloseWriterWith(sent) ==
  /\ mpc = "closing"
  /\ writer' = IF sent THEN Append(writer, CloseFrame) ELSE writer
  /\ ManagerExit(calls, "done")
  /\ UNCHANGED funs
  /\ UNCHANGED << hpc, connection_status, closeRet, close_manager,
                  close_receiver, rpc, rheld, nframes, stream_ended, status,
                  device_name >>

\* the close frame is written or the write fails
ManagerCloseWriter == \E sent \in BOOLEAN : ManagerCloseWriterWith(sent)

\* ----------------------------------------------------- ConnectionReceiver
\* RecvSocketMsg::Authentication { status: msg.connection }
AuthenticationEvent(msg) == [type |-> "Authentication", status |-> msg.connection]

\* handle_text: only an Authentication message produces an event
EventsOfText(j) ==
  LET msg == SocketMessage(j)
  IN IF msg.variant = "Authentication" THEN << AuthenticationEvent(msg) >> ELSE <<>>

\* read_next: Text goes to handle_text, every other frame and a read error
\* produce nothing
EventsOfFrameBug(f) ==
  IF f.kind = "Text" THEN EventsOfText(f.json)
                     ELSE << AuthenticationEvent([connection |-> "ok"]) >>
EventsOfFrame(f) == IF f.kind = "Text" THEN EventsOfText(f.json) ELSE <<>>

\* select! branch: res = self.read_next(), for the next inbound frame f;
\* tx_recv.send fails when the manager is gone and waits while the channel
\* is full
ReadNext(f) ==
  /\ rpc = "loop"
  /\ ~stream_ended
  /\ nframes < MaxFrames
  /\ nframes' = nframes + 1
  /\ LET evs == EventsOfFrame(f)
     IN IF evs = <<>> \/ mpc \in ManagerEnded
          THEN UNCHANGED << rx_socket, rpc, rheld >>
          ELSE IF Len(rx_socket) < ChannelCap
                 THEN rx_socket' = rx_socket \o evs /\ UNCHANGED << rpc, rheld >>
                 ELSE rheld' = evs /\ rpc' = "sending" /\ UNCHANGED rx_socket
  /\ UNCHANGED funs
  /\ UNCHANGED << hpc, connection_status, calls, closeRet, rx_cmd,
                  close_manager, close_receiver, pending_auth_request, mpc,
                  mcur, writer, stream_ended, status, device_name >>

\* the device closes the stream: from now on reader.next() yields None
StreamEnd ==
  /\ ~stream_ended
  /\ rpc \notin ReceiverEnded
  /\ stream_ended' = TRUE
  /\ UNCHANGED funs
  /\ UNCHANGED << hpc, connection_status, calls, closeRet, rx_cmd, rx_socket,
                  close_manager, close_receiver, pending_auth_request, mpc,
                  mcur, writer, rpc, rheld, nframes, status, device_name >>

\* the pending tx_recv.send completes: capacity, or the manager ended
ReadNextSend ==
  /\ rpc = "sending"
  /\ IF mpc \in ManagerEnded
       THEN UNCHANGED rx_socket
       ELSE Len(rx_socket) < ChannelCap /\ rx_socket' = rx_socket \o rheld
  /\ rheld' = <<>>
  /\ rpc' = "loop"
  /\ UNCHANGED funs
  /\ UNCHANGED << hpc, connection_status, calls, closeRet, rx_cmd,
                  close_manager, close_receiver, pending_auth_request, mpc,
                  mcur, writer, nframes, stream_ended, status, device_name >>

\* select! branch: _ = &mut rx_close; a read_next in flight is dropped
ReceiverRecvClose ==
  /\ rpc \in {"loop", "sending"}
  /\ close_receiver # "armed"
  /\ rpc' = "done"
  /\ rheld' = <<>>
  /\ UNCHANGED funs
  /\ UNCHANGED << hpc, connection_status, calls, closeRet, rx_cmd, rx_socket,
                  close_manager, close_receiver, pending_auth_request, mpc,
                  mcur, writer, nframes, stream_ended, status, device_name >>

\* ---------------------------------------------------------- specification
Next ==
  \/ Authenticate
  \/ AuthenticateReturn
  \/ WritePixel(NextPixel)
  \/ WritePixelReturn
  \/ Close
  \/ CloseJoinReceiver
  \/ CloseJoinManager
  \/ DropHandle
  \/ HandleRecvCmd
  \/ ManagerAuthenticate
  \/ ManagerWritePixel
  \/ HandleRecvSocketMsg
  \/ ManagerRecvClose
  \/ ManagerCloseWriter
  \/ \E f \in InboundFrames : ReadNext(f)
  \/ ReadNextSend
  \/ ReceiverRecvClose
  \/ StreamEnd

Spec == Init /\ [][Next]_vars


\* Scheduling: the runtime polls every task that can make progress, a
\* socket write completes, and tokio::select! polls its ready branches in
\* random order, so a branch that stays ready is eventually taken.
Fairness ==
  /\ WF_vars(AuthenticateReturn)
  /\ WF_vars(WritePixelReturn)
  /\ WF_vars(CloseJoinReceiver)
  /\ WF_vars(CloseJoinManager)
  /\ WF_vars(HandleRecvCmd)
  /\ WF_vars(ManagerAuthenticate)
  /\ WF_vars(ManagerWritePixel)
  /\ WF_vars(HandleRecvSocketMsg)
  /\ WF_vars(ManagerRecvClose)
  /\ WF_vars(ManagerCloseWriter)
  /\ WF_vars(ReadNextSend)
  /\ WF_vars(ReceiverRecvClose)

FairSpec == Spec /\ Fairness

\* A caller that may abandon a call: the future of authenticate() or
\* write_pixel() is dropped while it awaits res_rx, which drops the reply
\* receiver; the command stays queued or pending in the manager.
CancelCall ==
  /\ hpc \in {"authenticate", "write_pixel"}
  /\ Cardinality({ i \in DOMAIN calls : ~calls[i].rx_alive }) < MaxCancels
  /\ calls' = [calls EXCEPT ![Cur].rx_alive = FALSE, ![Cur].ret = "cancelled"]
  /\ hpc' = "idle"
  /\ UNCHANGED funs
  /\ UNCHANGED << connection_status, closeRet, rx_cmd, rx_socket, close_manager,
                  close_receiver, pending_auth_request, mpc, mcur, writer,
                  rpc, rheld, nframes, stream_ended, status, device_name >>

\* the handle is kept and the inbound stream stays open
NextCancel ==
  \/ Authenticate
  \/ AuthenticateReturn
  \/ WritePixel(NextPixel)
  \/ WritePixelReturn
  \/ CancelCall
  \/ Close
  \/ CloseJoinReceiver
  \/ CloseJoinManager
  \/ HandleRecvCmd
  \/ ManagerAuthenticate
  \/ ManagerWritePixel
  \/ HandleRecvSocketMsg
  \/ ManagerRecvClose
  \/ ManagerCloseWriter
  \/ \E f \in InboundFrames : ReadNext(f)
  \/ ReadNextSend
  \/ ReceiverRecvClose

SpecCancel == Init /\ [][NextCancel]_vars

\* A device that accepts every frame and answers the authenticate frame
\* with {"connection":"ok"}, driven by the call sequence of
\* tests::test_connection_setup: authenticate(), write_pixel()*, close().
IsAuthFrame(f) == f.kind = "Text" /\ Field(f.body, "request") = <<"authenticate">>

AuthFrameOnWire == \E k \in DOMAIN writer : IsAuthFrame(writer[k])

AuthAnswered ==
  \/ rx_socket # <<>>
  \/ rheld # <<>>
  \/ \E i \in DOMAIN calls : calls[i].answer # ""

OkAnswer == [kind |-> "Text", json |-> [connection |-> "ok"]]

OtherFrames == { f \in InboundFrames : EventsOfFrame(f) = <<>> }

DeviceAnswersOk ==
  /\ AuthFrameOnWire
  /\ ~AuthAnswered
  /\ ReadNext(OkAnswer)

\* any other traffic; within the frame bound the answer to a sent
\* authenticate frame is never crowded out
DeviceSendsOther ==
  /\ AuthAnswered \/ nframes + 1 < MaxFrames
  /\ \E f \in OtherFrames : ReadNext(f)

\* the device closes the stream once it has answered
DeviceEndsStream ==
  /\ AuthAnswered
  /\ StreamEnd

NextHappy ==
  \/ Cur = 0 /\ Authenticate
  \/ AuthenticateReturn
  \/ Cur >= 1 /\ WritePixel(NextPixel)
  \/ WritePixelReturn
  \/ Cur >= 1 /\ Close
  \/ CloseJoinReceiver
  \/ CloseJoinManager
  \/ HandleRecvCmd
  \/ ManagerAuthenticateWith(TRUE)
  \/ ManagerWritePixelWith(TRUE)
  \/ HandleRecvSocketMsg
  \/ ManagerRecvClose
  \/ ManagerCloseWriterWith(TRUE)
  \/ DeviceAnswersOk
  \/ DeviceSendsOther
  \/ DeviceEndsStream
  \/ ReceiverRecvClose

FairnessHappy ==
  /\ WF_vars(AuthenticateReturn)
  /\ WF_vars(WritePixelReturn)
  /\ WF_vars(CloseJoinReceiver)
  /\ WF_vars(CloseJoinManager)
  /\ WF_vars(HandleRecvCmd)
  /\ WF_vars(ManagerAuthenticateWith(TRUE))
  /\ WF_vars(ManagerWritePixelWith(TRUE))
  /\ WF_vars(HandleRecvSocketMsg)
  /\ WF_vars(ManagerRecvClose)
  /\ WF_vars(ManagerCloseWriterWith(TRUE))
  /\ WF_vars(DeviceAnswersOk)
  /\ WF_vars(ReceiverRecvClose)

SpecHappy == Init /\ [][NextHappy]_vars /\ FairnessHappy

\* ========================================================================
\* elli/mod.rs and elli/connection.rs: ElliConnection over ElliSocket and
\* ElliReceiver.  The state task sends the authenticate frame at startup and
\* owns status and device_name; commands carry no reply channel.
\* ========================================================================
NoReply == [tag |-> "none", val |-> ""]

InitMod ==
  /\ hpc = "idle"
  /\ connection_status = "none"
  /\ calls = <<>>
  /\ closeRet = "none"
  /\ rx_cmd = <<>>
  /\ rx_socket = <<>>
  /\ close_manager = "armed"
  /\ close_receiver = "armed"
  /\ pending_auth_request = 0
  /\ mpc = "send_auth_msg"
  /\ mcur = 0
  /\ writer = <<>>
  /\ rpc = "loop"
  /\ rheld = <<>>
  /\ nframes = 0
  /\ stream_ended = FALSE
  /\ status = "Offline"
  /\ device_name = ""
  /\ FunsDone

\* ElliConnection::send_pixel: command_tx.send(cmd).await?; Ok(())
SendPixel(p) ==
  /\ hpc = "idle"
  /\ Cur < MaxCalls
  /\ IF mpc \in ManagerEnded
       THEN /\ calls' = Append(calls, NewCall("send_pixel", p, NoReply, "Err"))
            /\ UNCHANGED rx_cmd
       ELSE /\ Len(rx_cmd) < ChannelCap
            /\ calls' = Append(calls, NewCall("send_pixel", p, NoReply, "Ok"))
            /\ rx_cmd' = Append(rx_cmd, Cur + 1)
  /\ UNCHANGED funs
  /\ UNCHANGED << hpc, connection_status, closeRet, rx_socket, close_manager,
                  close_receiver, pending_auth_request, mpc, mcur, writer,
                  rpc, rheld, nframes, stream_ended, status, device_name >>

\* ElliConnection::close (mod.rs): both signals, then the state task's handle
ModClose ==
  /\ hpc = "idle"
  /\ close_receiver' = Signal(close_receiver)
  /\ close_manager' = Signal(close_manager)
  /\ hpc' = "join_socket"
  /\ UNCHANGED funs
  /\ UNCHANGED << connection_status, calls, closeRet, rx_cmd, rx_socket,
                  pending_auth_request, mpc, mcur, writer, rpc, rheld,
                  nframes, stream_ended, status, device_name >>

\* self.socket_handle.await? : a JoinError returns at once
ModJoinSocket ==
  /\ hpc = "join_socket"
  /\ mpc \in ManagerEnded
  /\ IF mpc = "panicked"
       THEN hpc' = "closed" /\ closeRet' = "Err"
       ELSE hpc' = "join_read" /\ UNCHANGED closeRet
  /\ UNCHANGED funs
  /\ UNCHANGED << connection_status, calls, rx_cmd, rx_socket, close_manager,
                  close_receiver, pending_auth_request, mpc, mcur, writer,
                  rpc, rheld, nframes, stream_ended, status, device_name >>

\* self.read_handle.await? ; Ok(())
ModJoinRead ==
  /\ hpc = "join_read"
  /\ rpc \in ReceiverEnded
  /\ closeRet' = IF rpc = "panicked" THEN "Err" ELSE "Ok"
  /\ hpc' = "closed"
  /\ UNCHANGED funs
  /\ UNCHANGED << connection_status, calls, rx_cmd, rx_socket, close_manager,
                  close_receiver, pending_auth_request, mpc, mcur, writer,
                  rpc, rheld, nframes, stream_ended, status, device_name >>

\* start_state_recv: send_auth_msg before the loop; on failure the task returns
StartStateRecv ==
  /\ mpc = "send_auth_msg"
  /\ \E sent \in BOOLEAN :
       IF sent
         THEN /\ writer' = Append(writer, TextFrame(AuthMessage(Config)))
              /\ mpc' = "select"
              /\ UNCHANGED << calls, rx_cmd, rx_socket, pending_auth_request, mcur >>
         ELSE /\ ManagerExit(calls, "done")
              /\ UNCHANGED writer
  /\ UNCHANGED funs
  /\ UNCHANGED << hpc, connection_status, closeRet, close_manager,
                  close_receiver, rpc, rheld, nframes, stream_ended, status,
                  device_name >>

\* select! branch: Some(cmd) = state.command_recv.recv(), on_cmd's match
OnCmd ==
  /\ mpc = "select"
  /\ rx_cmd # <<>>
  /\ mcur' = Head(rx_cmd)
  /\ rx_cmd' = Tail(rx_cmd)
  /\ mpc' = "send_pixel"
  /\ UNCHANGED funs
  /\ UNCHANGED << hpc, connection_status, calls, closeRet, rx_socket,
                  close_manager, close_receiver, pending_auth_request,
                  writer, rpc, rheld, nframes, stream_ended, status, device_name >>

\* ElliSocket::send_pixel under on_cmd(cmd).await.expect(..): a failed send
\* panics the state task
ElliSocketSendPixel ==
  /\ mpc = "send_pixel"
  /\ \E sent \in BOOLEAN :
       IF sent
         THEN /\ writer' = Append(writer, PixelFrame(Config, calls[mcur].pixel))
              /\ calls' = [calls EXCEPT ![mcur].sent = TRUE]
              /\ mpc' = "select"
              /\ mcur' = 0
              /\ UNCHANGED << rx_cmd, rx_socket, pending_auth_request >>
         ELSE /\ ManagerExit(calls, "panicked")
              /\ UNCHANGED writer
  /\ UNCHANGED funs
  /\ UNCHANGED << hpc, connection_status, closeRet, close_manager,
                  close_receiver, rpc, rheld, nframes, stream_ended, status,
                  device_name >>

\* select! branch: Some(on_recv) = state.read_recv.recv(), on_rcv's match
\* under .expect(..): handle_authentication and handle_disconnected return
\* Err for status Error
OnRcv ==
  /\ mpc = "select"
  /\ rx_socket # <<>>
  /\ LET ev == Head(rx_socket)
     IN /\ status' = IF ev.type \in {"Authentication", "Disconnected", "DeviceName"}
                       THEN ev.status ELSE status
        /\ device_name' = IF ev.type = "DeviceName" THEN ev.name ELSE device_name
        /\ IF ev.type \in {"Authentication", "Disconnected"} /\ ev.status = "Error"
             THEN ManagerExit(calls, "panicked")
             ELSE /\ rx_socket' = Tail(rx_socket)
                  /\ mpc' = IF ev.type = "Authentication" THEN "request_name" ELSE "select"
                  /\ UNCHANGED << calls, rx_cmd, pending_auth_request, mcur >>
  /\ UNCHANGED funs
  /\ UNCHANGED << hpc, connection_status, closeRet, close_manager,
                  close_receiver, writer, rpc, rheld, nframes, stream_ended >>

\* ElliSocket::request_name inside handle_authentication: a failed send is
\* an Err of on_rcv, which panics the state task
RequestName ==
  /\ mpc = "request_name"
  /\ \E sent \in BOOLEAN :
       IF sent
         THEN /\ writer' = Append(writer, TextFrame(RequestMessage("read", "name", Config)))
              /\ mpc' = "select"
              /\ UNCHANGED << calls, rx_cmd, rx_socket, pending_auth_request, mcur >>
         ELSE /\ ManagerExit(calls, "panicked")
              /\ UNCHANGED writer
  /\ UNCHANGED funs
  /\ UNCHANGED << hpc, connection_status, closeRet, close_manager,
                  close_receiver, rpc, rheld, nframes, stream_ended, status,
                  device_name >>

\* select! branch: _ = &mut shutdown
StateRecvShutdown ==
  /\ mpc = "select"
  /\ close_manager # "armed"
  /\ mpc' = "closing"
  /\ UNCHANGED funs
  /\ UNCHANGED << hpc, connection_status, calls, closeRet, rx_cmd, rx_socket,
                  close_manager, close_receiver, pending_auth_request, mcur,
                  writer, rpc, rheld, nframes, stream_ended, status, device_name >>

\* state.write.close().await.expect(..); break
StateRecvCloseWriter ==
  /\ mpc = "closing"
  /\ \E sent \in BOOLEAN :
       IF sent
         THEN writer' = Append(writer, CloseFrame) /\ ManagerExit(calls, "done")
         ELSE UNCHANGED writer /\ ManagerExit(calls, "panicked")
  /\ UNCHANGED funs
  /\ UNCHANGED << hpc, connection_status, closeRet, close_manager,
                  close_receiver, rpc, rheld, nframes, stream_ended, status,
                  device_name >>

\* ElliReceiver::handle_authenticated / handle_device_name: the OnRecv built
\* from a decoded message; a Pixel message is only logged
OnRecvOfTextBug(j) ==
  LET msg == SocketMessage(j)
  IN IF msg.variant = "Authentication"
       THEN << [type |-> "Authentication", name |-> "",
                status |-> IF msg.connection = "ok" THEN "Authenticated" ELSE "Error"] >>
     ELSE IF msg.variant = "DeviceName"
       THEN << [type |-> "DeviceName", name |-> j.name, status |-> "Authenticated"] >>
     ELSE <<>>

OnRecvOfText(j) ==
  LET msg == SocketMessage(j)
  IN IF msg.variant = "Authentication"
       THEN << [type |-> "Authentication", name |-> "",
                status |-> IF msg.connection = "ok" THEN "Authenticated" ELSE "Error"] >>
     ELSE IF msg.variant = "DeviceName"
       THEN << [type |-> "DeviceName", name |-> j.name, status |-> "Live"] >>
     ELSE <<>>

\* ElliReceiver::receive_msg returns Err for a read error and for a text
\* that does not decode
ReceiveMsgFails(f) ==
  \/ f.kind = "ReadError"
  \/ f.kind = "Text" /\ SocketMessage(f.json).variant = "Error"

\* receive_msg: only Text produces an OnRecv; on Close the future of
\* handle_close() is created but never awaited, so nothing is sent
OnRecvOfFrame(f) == IF f.kind = "Text" THEN OnRecvOfText(f.json) ELSE <<>>

\* select! branch: res = receiver.receive_msg(), for the next inbound frame
\* f; an Err (also of on_recv.send when the state task is gone) breaks
ReceiveMsg(f) ==
  /\ rpc = "loop"
  /\ ~stream_ended
  /\ nframes < MaxFrames
  /\ nframes' = nframes + 1
  /\ LET evs == OnRecvOfFrame(f)
     IN IF ReceiveMsgFails(f) \/ (evs # <<>> /\ mpc \in ManagerEnded)
          THEN rpc' = "done" /\ UNCHANGED << rx_socket, rheld >>
          ELSE IF evs = <<>>
                 THEN UNCHANGED << rx_socket, rpc, rheld >>
                 ELSE IF Len(rx_socket) < ChannelCap
                        THEN rx_socket' = rx_socket \o evs /\ UNCHANGED << rpc, rheld >>
                        ELSE rheld' = evs /\ rpc' = "sending" /\ UNCHANGED rx_socket
  /\ UNCHANGED funs
  /\ UNCHANGED << hpc, connection_status, calls, closeRet, rx_cmd,
                  close_manager, close_receiver, pending_auth_request, mpc,
                  mcur, writer, stream_ended, status, device_name >>

\* the pending on_recv.send completes: capacity, or the state task ended
ReceiveMsgSend ==
  /\ rpc = "sending"
  /\ IF mpc \in ManagerEnded
       THEN rpc' = "done" /\ UNCHANGED rx_socket
       ELSE /\ Len(rx_socket) < ChannelCap
            /\ rx_socket' = rx_socket \o rheld
            /\ rpc' = "loop"
  /\ rheld' = <<>>
  /\ UNCHANGED funs
  /\ UNCHANGED << hpc, connection_status, calls, closeRet, rx_cmd,
                  close_manager, close_receiver, pending_auth_request, mpc,
                  mcur, writer, nframes, stream_ended, status, device_name >>

\* select! branch: _ = &mut shutdown_receiver; a receive_msg in flight is
\* dropped
SocketReceiveShutdown ==
  /\ rpc \in {"loop", "sending"}
  /\ close_receiver # "armed"
  /\ rpc' = "done"
  /\ rheld' = <<>>
  /\ UNCHANGED funs
  /\ UNCHANGED << hpc, connection_status, calls, closeRet, rx_cmd, rx_socket,
                  close_manager, close_receiver, pending_auth_request, mpc,
                  mcur, writer, nframes, stream_ended, status, device_name >>

NextMod ==
  \/ SendPixel(NextPixel)
  \/ ModClose
  \/ ModJoinSocket
  \/ ModJoinRead
  \/ DropHandle
  \/ StartStateRecv
  \/ OnCmd
  \/ ElliSocketSendPixel
  \/ OnRcv
  \/ RequestName
  \/ StateRecvShutdown
  \/ StateRecvCloseWriter
  \/ \E f \in InboundFrames : ReceiveMsg(f)
  \/ ReceiveMsgSend
  \/ SocketReceiveShutdown
  \/ StreamEnd

SpecMod == InitMod /\ [][NextMod]_vars

\* ------------------------------------------------------------- properties
AuthCalls == { i \in DOMAIN calls : calls[i].op = "authenticate" }
WriteCalls == { i \in DOMAIN calls : calls[i].op = "write_pixel" }

\* the last authenticate() call that returned Ok, 0 if none
LastAuthOk ==
  LET oks == { i \in AuthCalls : calls[i].ret = "Ok" }
  IN IF oks = {} THEN 0 ELSE CHOOSE i \in oks : \A j \in oks : j <= i

\* the JSON object j has exactly one field k, and its value is v
FieldIs(j, k, v) ==
  /\ Cardinality({ i \in 1..Len(j) : j[i][1] = k }) = 1
  /\ Field(j, k) = <<v>>

\* C1: an authenticate() call that the device's {"connection":"ok"} answered
\* is replied Ok(Authenticated); once it has returned it returned Ok, and
\* until a later authenticate() returns the handle's status is Authenticated.
C1_AuthOkResolvesAuthenticated ==
  \A i \in AuthCalls :
    calls[i].answer = "ok" =>
      /\ calls[i].reply = Ok("Authenticated")
      /\ calls[i].ret \in {"pending", "Ok"}
      /\ (calls[i].ret = "Ok" /\ LastAuthOk = i) => connection_status = "Authenticated"

C1_Witness ==
  \E i \in AuthCalls :
    /\ calls[i].answer = "ok"
    /\ calls[i].ret = "Ok"
    /\ connection_status = "Authenticated"

\* C2: an authenticate() call that a connection value other than "ok"
\* answered returns an error, never success, and the status becomes Error.
C2_AuthFailureIsError ==
  \A i \in AuthCalls :
    (calls[i].answer \notin {"", "ok"} /\ calls[i].ret # "pending") =>
      /\ calls[i].ret = "Err"
      /\ (LastAuthOk <= i => connection_status = "Error")

\* C3: the frame a write_pixel command puts on the socket has request
\* "write", param "pixel", from = identity code, to = peer code and the
\* row, col, hue, sat, val of the command's pixel.
C3_PixelFrameFields ==
  [][ (mpc = "write_pixel" /\ writer' # writer) =>
        LET f == writer'[Len(writer')]
            p == calls[mcur].pixel
        IN /\ Len(writer') = Len(writer) + 1
           /\ f.kind = "Text"
           /\ Len(f.body) = 9
           /\ FieldIs(f.body, "request", "write")
           /\ FieldIs(f.body, "param", "pixel")
           /\ FieldIs(f.body, "from", Config.b_code)
           /\ FieldIs(f.body, "to", Config.d_code)
           /\ FieldIs(f.body, "row", p.row)
           /\ FieldIs(f.body, "col", p.col)
           /\ FieldIs(f.body, "hue", p.hue)
           /\ FieldIs(f.body, "sat", p.sat)
           /\ FieldIs(f.body, "val", p.val) ]_vars

C3_Witness ==
  \E i \in WriteCalls, k \in DOMAIN writer :
    /\ calls[i].ret = "Ok"
    /\ writer[k].kind = "Text"
    /\ FieldIs(writer[k].body, "param", "pixel")
    /\ FieldIs(writer[k].body, "row", calls[i].pixel.row)


\* C4: when the socket write of a pixel frame fails, the command's reply (if
\* it has one) is fulfilled with a transport error and the manager goes back
\* to its select loop, where it handles later commands and events.
C4_WriteFailureKeepsManager ==
  [][ (mpc \in {"write_pixel", "send_pixel"} /\ mpc' # mpc /\ writer' = writer) =>
        /\ mpc' = "select"
        /\ calls[mcur].op = "write_pixel" => calls'[mcur].reply = Err("transport") ]_vars

\* C5: whenever close() has returned, both tasks have ended, and nothing is
\* written, read or handled afterwards.
C5_ClosedMeansBothTasksEnded ==
  /\ [](hpc = "closed" => (mpc \in ManagerEnded /\ rpc \in ReceiverEnded))
  /\ [][ hpc = "closed" =>
           UNCHANGED << writer, nframes, rx_cmd, rx_socket, mpc, rpc, calls >> ]_vars

\* C7: close() returns an error exactly when a task ended abnormally, and
\* it has waited for both tasks whichever of them ended abnormally.
C7_CloseAggregatesJoinFailures ==
  hpc = "closed" =>
    /\ closeRet = "Err" <=> (mpc = "panicked" \/ rpc = "panicked")
    /\ mpc \in ManagerEnded
    /\ rpc \in ReceiverEnded


\* C6: under fair scheduling close() returns from every state in which it
\* was called: both tasks observe their close signal and end.
C6_CloseEventuallyReturns ==
  (hpc \in {"join_receiver", "join_manager"}) ~> (hpc = "closed")

C6_Witness ==
  /\ hpc = "closed"
  /\ stream_ended
  /\ \E i \in DOMAIN calls : calls[i].ret = "Ok"


\* C9: with a device that accepts every frame and answers the authenticate
\* frame with ok, every call of the sequence authenticate(), write_pixel()*,
\* close() returns, and returns success.
C9_HappySequenceSucceeds ==
  /\ [](\A i \in DOMAIN calls : calls[i].ret \in {"pending", "Ok"})
  /\ [](closeRet \in {"none", "Ok"})
  /\ (hpc \in {"authenticate", "write_pixel"}) ~> (hpc = "idle")
  /\ (hpc \in {"join_receiver", "join_manager"}) ~> (hpc = "closed")

C9_Witness ==
  /\ hpc = "closed"
  /\ closeRet = "Ok"
  /\ Cur = MaxCalls
  /\ \A i \in DOMAIN calls : calls[i].ret = "Ok"
  /\ connection_status = "Authenticated"

\* pixel-write frames on the socket, in the order they were written
PixelFramesOnWire ==
  SelectSeq(writer, LAMBDA f : f.kind = "Text" /\ Field(f.body, "param") = <<"pixel">>)

\* the frames of the write_pixel() calls that were answered Ok, in call order
AnsweredWrites ==
  LET ids == SelectSeq([i \in 1..Len(calls) |-> i],
                       LAMBDA i : calls[i].op = "write_pixel" /\ calls[i].reply.tag = "Ok")
  IN [k \in 1..Len(ids) |-> TextFrame(PixelMessage(Config, calls[ids[k]].pixel))]

\* C10: the pixel frames on the socket are exactly the frames of the
\* write_pixel() calls answered with success, one per call and in call
\* order; and every frame is written by the one handler the manager is in.
C10_PixelFramesInCallOrder ==
  /\ [](PixelFramesOnWire = AnsweredWrites)
  /\ [][ writer' # writer =>
           /\ \E f \in {writer'[Len(writer')]} : writer' = Append(writer, f)
           /\ mpc \in {"authenticate", "write_pixel", "closing"}
           /\ mpc' # mpc ]_vars

C10_Witness ==
  /\ Len(PixelFramesOnWire) >= 2
  /\ PixelFramesOnWire[1] # PixelFramesOnWire[2]
  /\ \E k \in DOMAIN writer : IsAuthFrame(writer[k])

\* a task leaves its loop in this step
ManagerEnds == mpc \notin ManagerEnded /\ mpc' \in ManagerEnded
ReceiverEnds == rpc \notin ReceiverEnded /\ rpc' \in ReceiverEnded

\* C11 as stated: a task ends only after close() sent it the close signal or
\* after a fatal error; a handle discarded without close() ends no task.
C11_EndOnlyOnExplicitSignal ==
  [][ /\ ManagerEnds => (close_manager = "sent" \/ mpc' = "panicked")
      /\ ReceiverEnds => (close_receiver = "sent" \/ rpc' = "panicked") ]_vars

\* C11 amended: a task ends only after its close channel was signalled by
\* close() or closed by discarding the handle, or after a fatal error; and
\* once the handle is discarded both tasks do end.
C11_EndOnSignalOrDrop ==
  /\ [][ /\ ManagerEnds => (close_manager \in {"sent", "dropped"} \/ mpc' = "panicked")
         /\ ReceiverEnds => (close_receiver \in {"sent", "dropped"} \/ rpc' = "panicked") ]_vars
  /\ (hpc = "dropped") ~> (mpc \in ManagerEnded /\ rpc \in ReceiverEnded)

C11_Witness ==
  /\ hpc = "dropped"
  /\ close_manager = "dropped"
  /\ close_receiver = "dropped"
  /\ mpc = "done"
  /\ rpc = "done"

\* the manager stores a reply sender in a pending slot that holds another one
OverwritesPending ==
  /\ mpc = "authenticate"
  /\ pending_auth_request # 0
  /\ pending_auth_request' \notin {0, pending_auth_request}

\* an authentication event is delivered to call i in this step
Answered(i) == calls[i].answer = "" /\ calls'[i].answer # ""

\* C12 as stated: the overwritten caller's reply channel stays open, so that
\* caller receives nothing and waits forever.
C12_FirstCallerWaitsForever ==
  [][ OverwritesPending => calls'[pending_auth_request].reply = Open ]_vars

\* C12 amended: the overwritten reply sender is dropped, which closes the
\* first caller's channel (RecvError, no wait); that caller had abandoned
\* its call; the overwritten call is never answered, and an authentication
\* event answers only the call whose sender is in the pending slot.
C12_OverwriteDropsFirstSender ==
  /\ [][ OverwritesPending =>
           /\ ~calls[pending_auth_request].rx_alive
           /\ calls'[pending_auth_request].reply = SenderDropped
           /\ calls'[pending_auth_request'].reply = Open ]_vars
  /\ [][ \A i \in DOMAIN calls :
           /\ Answered(i) => i = pending_auth_request
           /\ calls[i].reply = SenderDropped => calls'[i].reply = SenderDropped ]_vars

C12_Witness ==
  \E i, j \in AuthCalls :
    /\ i < j
    /\ calls[i].sent
    /\ calls[i].reply = SenderDropped
    /\ calls[i].answer = ""
    /\ calls[j].answer # ""
    /\ calls[j].ret = "Ok"
    /\ mpc = "select"

\* ========================================================================
\* ElliConfig::from_ccc applied to the pairing codes of Codes
\* ========================================================================
InitParse ==
  /\ ccc \in Codes
  /\ parsed = NotCalled
  /\ rgb = << 0, 0, 0 >>
  /\ hsv = << 0, 0, 0 >>
  /\ ExpiryDone
  /\ hpc = "idle"
  /\ connection_status = "none"
  /\ calls = <<>>
  /\ closeRet = "none"
  /\ rx_cmd = <<>>
  /\ rx_socket = <<>>
  /\ close_manager = "armed"
  /\ close_receiver = "armed"
  /\ pending_auth_request = 0
  /\ mpc = "none"
  /\ mcur = 0
  /\ writer = <<>>
  /\ rpc = "none"
  /\ rheld = <<>>
  /\ nframes = 0
  /\ stream_ended = FALSE
  /\ status = "none"
  /\ device_name = ""

FromCcc ==
  /\ parsed = NotCalled
  /\ parsed' = from_ccc(ccc)
  /\ UNCHANGED << ccc, rgb, hsv, expires_in, now, expires_at >>
  /\ UNCHANGED conn

NextParse == FromCcc

SpecParse == InitParse /\ [][NextParse]_vars

\* ========================================================================
\* PixelData::rgb_to_hsv applied to the triples of RgbInputs
\* ========================================================================
InitHsv ==
  /\ rgb \in RgbInputs
  /\ hsv = NoHsv
  /\ ccc = PairingCode
  /\ parsed = from_ccc(PairingCode)
  /\ ExpiryDone
  /\ hpc = "idle"
  /\ connection_status = "none"
  /\ calls = <<>>
  /\ closeRet = "none"
  /\ rx_cmd = <<>>
  /\ rx_socket = <<>>
  /\ close_manager = "armed"
  /\ close_receiver = "armed"
  /\ pending_auth_request = 0
  /\ mpc = "none"
  /\ mcur = 0
  /\ writer = <<>>
  /\ rpc = "none"
  /\ rheld = <<>>
  /\ nframes = 0
  /\ stream_ended = FALSE
  /\ status = "none"
  /\ device_name = ""

RgbToHsv ==
  /\ hsv = NoHsv
  /\ hsv' \in rgb_to_hsv(rgb[1], rgb[2], rgb[3])
  /\ UNCHANGED << ccc, parsed, rgb, expires_in, now, expires_at >>
  /\ UNCHANGED conn

NextHsv == RgbToHsv

SpecHsv == InitHsv /\ [][NextHsv]_vars

\* the two characters at positions [16,18) of a code read as a number:
\* two digits, or "+" and a digit
SizeText(two) ==
  IF Len(two) = 2 /\ IsDigit(two[1]) /\ IsDigit(two[2])
    THEN Some(10 * DigitValue(two[1]) + DigitValue(two[2]))
  ELSE IF Len(two) = 2 /\ two[1] = "+" /\ IsDigit(two[2])
    THEN Some(DigitValue(two[2]))
  ELSE None

\* C13 as stated: a code of at least 16 characters parses, into its
\* characters [0,8) and [8,16).
C13_SplitsCharacters ==
  (parsed # NotCalled /\ Len(ccc) >= 16) =>
    /\ parsed.tag = "Ok"
    /\ parsed.b_code = SubSeq(ccc, 1, 8)
    /\ parsed.d_code = SubSeq(ccc, 9, 16)

\* C13 amended: a code of at least 16 bytes whose byte offsets 8 and 16 are
\* character boundaries parses, into its bytes [0,8) and [8,16); for a code
\* of one-byte characters these are its characters [0,8) and [8,16).
C13_SplitsBytes ==
  LET bs == Utf8(ccc)
  IN (parsed # NotCalled /\ Len(bs) >= 16
        /\ IsCharBoundary(bs, 8) /\ IsCharBoundary(bs, 16)) =>
       /\ parsed.tag = "Ok"
       /\ Utf8(parsed.b_code) = SubSeq(bs, 1, 8)
       /\ Utf8(parsed.d_code) = SubSeq(bs, 9, 16)
       /\ (Len(bs) = Len(ccc)) =>
            (parsed.b_code = SubSeq(ccc, 1, 8) /\ parsed.d_code = SubSeq(ccc, 9, 16))

C13_Witness ==
  /\ ccc = PairingCode
  /\ parsed.tag = "Ok"
  /\ parsed.b_code = << "0", "F", "B", "L", "3", "E", "2", "B" >>
  /\ parsed.d_code = << "3", "U", "P", "U", "4", "R", "9", "Z" >>

\* C14 as stated: a code of fewer than 16 characters fails with a parse error.
C14_ShortCharactersFail ==
  (parsed # NotCalled /\ Len(ccc) < 16) => parsed = ParseError

\* C14 amended: a code of fewer than 16 bytes fails with a parse error and
\* yields no address.
C14_ShortBytesFail ==
  (parsed # NotCalled /\ Len(Utf8(ccc)) < 16) => parsed = ParseError

C14_Witness ==
  /\ Len(ccc) \in 8..15
  /\ Len(Utf8(ccc)) = 15
  /\ parsed = ParseError

\* C15 as stated: the size is the number written by the characters [16,18)
\* of the code when they are there and read as a number, and 5 otherwise.
C15_SizeFromCharacters ==
  (parsed # NotCalled /\ parsed.tag = "Ok") =>
    LET two == IF Len(ccc) >= 18 THEN SizeText(SubSeq(ccc, 17, 18)) ELSE None
    IN parsed.size = IF two.some THEN two.val ELSE 5

\* C15 amended: the size is the number written by the bytes [16,18) of the
\* code when they are there, are whole characters and read as a number, and
\* 5 otherwise.
C15_SizeFromBytes ==
  (parsed # NotCalled /\ parsed.tag = "Ok") =>
    LET bs == Utf8(ccc)
        two == IF Len(bs) >= 18 /\ bs[17].k = 1 /\ IsCharBoundary(bs, 18)
                 THEN SizeText(FromUtf8(SubSeq(bs, 17, 18))) ELSE None
    IN parsed.size = IF two.some THEN two.val ELSE 5

C15_Witness ==
  /\ parsed # NotCalled
  /\ parsed.tag = "Ok"
  /\ Len(ccc) = 18
  /\ SubSeq(ccc, 17, 18) = << "0", "7" >>
  /\ parsed.size = 7

\* C16: rgb_to_hsv(v, v, v) is (0, 0, v), and every component of every
\* result is a byte.
C16_GrayAndByteRange ==
  hsv # NoHsv =>
    /\ (rgb[1] = rgb[2] /\ rgb[2] = rgb[3]) => hsv = << 0, 0, rgb[1] >>
    /\ \A i \in 1..3 : hsv[i] \in 0..255

C16_Witness ==
  /\ rgb = << 128, 128, 128 >>
  /\ hsv = << 0, 0, 128 >>

\* C17: until the first inbound frame is read the connection's status is
\* Connected (elli/mod.rs keeps it in ElliSocket.status).
C17_InitiallyConnected ==
  nframes = 0 => status = "Connected"

\* the status changes the state machine allows
AllowedStatusChange ==
  { << "Connected", "Authenticated" >>, << "Authenticated", "Live" >> } \cup
  ({ "Connected", "Authenticated", "Live" } \X { "Error", "Offline" })

\* C18: every change of the status is an allowed one, so Error and Offline
\* are never left and Live never goes back to Authenticated or Connected.
C18_StatusStateMachine ==
  [][ status' # status => << status, status' >> \in AllowedStatusChange ]_vars

\* C19: with a device that answers the authenticate frame with ok (and
\* every name request with the device name) the status eventually is Live.
C19_EventuallyLive ==
  <>(connection_status = "Live")

\* C20: the first frame on the socket is the authenticate frame, and it is
\* there before any command is handled and without an authenticate() call.
C20_AuthFrameFirst ==
  /\ writer # <<>> => writer[1] = TextFrame(AuthMessage(Config))
  /\ (\E i \in DOMAIN calls : calls[i].reply # Open \/ mcur = i) => writer # <<>>

\* the authenticate frames written to the socket so far
AuthFramesOnWire == { k \in DOMAIN writer : IsAuthFrame(writer[k]) }

\* C21: handling an Authenticate command writes no frame (it only stores
\* the reply channel), and at most one authenticate frame is ever written,
\* however many authenticate() calls are made.
C21_AuthCommandSendsNoFrame ==
  [][ /\ mpc = "authenticate" => writer' = writer
      /\ Cardinality(AuthFramesOnWire') <= 1 ]_vars

\* the device-name request: request "read", param "name", from the identity
\* code to the peer code
NameRequestFrame == TextFrame(RequestMessage("read", "name", Config))

\* the manager takes an event off the event channel
TakesEvent ==
  /\ mpc = "select"
  /\ rx_socket # <<>>
  /\ HandleRecvSocketMsg \/ OnRcv

\* the event carries the device's answer "ok"
IsOkAuthentication(ev) ==
  ev.type = "Authentication" /\ ev.status \in {"ok", "Authenticated"}

\* C22: the handler of an AuthenticationEvent with status ok writes the
\* device-name request before the manager takes another command or event
\* (the write may fail, which ends the handler); the handler of any other
\* event writes no name request.
C22_OkAuthenticationRequestsName ==
  [][ /\ (TakesEvent /\ IsOkAuthentication(Head(rx_socket))) =>
           \/ writer' = Append(writer, NameRequestFrame)
           \/ mpc' = "request_name"
      /\ (TakesEvent /\ ~IsOkAuthentication(Head(rx_socket))) =>
           /\ writer' = writer
           /\ mpc' # "request_name"
      /\ (mpc = "request_name" /\ mpc' # mpc) =>
           \/ writer' = Append(writer, NameRequestFrame)
           \/ mpc' \in ManagerEnded /\ writer' = writer
      /\ (writer' # writer /\ writer'[Len(writer')] = NameRequestFrame) =>
           mpc = "request_name" ]_vars

\* the manager takes a DeviceName event off the event channel
HandlesDeviceName ==
  TakesEvent /\ Head(rx_socket).type = "DeviceName"

\* C23: handling a DeviceNameEvent sets the status to Live and records the
\* event's name; the status becomes Live only by handling such an event and
\* the recorded name changes only then, so it is the name of the reply
\* handled last.
C23_DeviceNameSetsLive ==
  /\ status # "Live"
  /\ device_name = ""
  /\ [][ /\ HandlesDeviceName =>
              /\ status' = "Live"
              /\ device_name' = Head(rx_socket).name
         /\ (status' = "Live" /\ status # "Live") => HandlesDeviceName
         /\ device_name' # device_name => HandlesDeviceName ]_vars

\* a second device-name reply has replaced the name of the first
C23_Witness ==
  /\ status = "Live"
  /\ device_name = "Tetris"
  /\ nframes = 2
  /\ mpc = "select"

\* OnRecv::Disconnected { status: ConnectionStatus::Offline }
DisconnectedEvent == [type |-> "Disconnected", name |-> "", status |-> "Offline"]

\* the Close frame as the reader yields it
InboundClose == [kind |-> "Close", json |-> [none |-> ""]]

\* C24: reading a Close frame emits a DisconnectedEvent to the manager
\* (unless the manager is gone), and handling that event sets the status
\* to Offline.
C24_CloseEmitsDisconnected ==
  [][ /\ (ReceiveMsg(InboundClose) /\ mpc \notin ManagerEnded) =>
           \/ rx_socket' = Append(rx_socket, DisconnectedEvent)
           \/ rheld' = << DisconnectedEvent >>
      /\ (TakesEvent /\ Head(rx_socket).type = "Disconnected") =>
           status' = "Offline" ]_vars

\* the manager takes an Authentication event while no reply is pending
HandlesUnexpectedAuthentication ==
  /\ TakesEvent
  /\ Head(rx_socket).type = "Authentication"
  /\ pending_auth_request = 0

\* C25: an AuthenticationEvent handled while the pending slot is empty
\* changes no status, fulfills no reply, and the manager keeps running.
C25_UnexpectedAuthenticationIgnored ==
  [][ HandlesUnexpectedAuthentication =>
        /\ status' = status
        /\ connection_status' = connection_status
        /\ \A i \in DOMAIN calls : calls'[i].reply = calls[i].reply
        /\ mpc' \notin ManagerEnded ]_vars

\* the receiver reads a frame that is a transport error or a Text that does
\* not decode
ReadsFailingFrame ==
  \E f \in InboundFrames : ReceiveMsgFails(f) /\ ReadNext(f)

\* C26: a Text frame that fails to decode, or a read error, ends the
\* receiver; an ended receiver reads no frame and emits no event; the
\* manager is not affected.
C26_ReadFailureEndsReceiver ==
  [][ /\ ReadsFailingFrame =>
           /\ rpc' \in ReceiverEnded
           /\ mpc' = mpc
      /\ rpc \in ReceiverEnded =>
           /\ nframes' = nframes
           /\ rheld' = rheld
           /\ Len(rx_socket') <= Len(rx_socket) ]_vars

\* the frame kinds read_next logs or skips
DroppedKinds == {"Ping", "Pong", "Binary"}

\* C27: reading a Ping, Pong or Binary frame emits no event and changes
\* neither the status nor the pending slot, and the receiver stays in its
\* loop.
C27_ControlFramesDropped ==
  [][ \A f \in InboundFrames :
        (f.kind \in DroppedKinds /\ ReadNext(f)) =>
          /\ rx_socket' = rx_socket
          /\ rheld' = rheld
          /\ connection_status' = connection_status
          /\ pending_auth_request' = pending_auth_request
          /\ rpc' = "loop" ]_vars

\* frames were read while an authenticate() call is pending, no event was
\* emitted and the slot still holds the reply
C27_Witness ==
  /\ nframes = 2
  /\ rx_socket = <<>>
  /\ rheld = <<>>
  /\ rpc = "loop"
  /\ pending_auth_request # 0
  /\ connection_status = "Connected"

\* a value was sent into the reply channel
Fulfilled(r) == r.tag \in {"Ok", "Err"}

\* the calls whose reply is fulfilled by the step
FulfilledNow ==
  { i \in DOMAIN calls : ~Fulfilled(calls[i].reply) /\ Fulfilled(calls'[i].reply) }

C30_CloseFailureIgnored ==
  [][ /\ (mpc = "closing" /\ mpc' # mpc) => mpc' = "done"
      /\ \A k \in DOMAIN writer' : writer'[k] = CloseFrame => k = Len(writer') ]_vars

\* C31: a task acts on the close signal only between loop iterations: the
\* manager does not end inside a command handler, and the receiver does not
\* end while it forwards the event of a frame it has already read.
C31_CloseOnlyBetweenIterations ==
  [][ /\ mpc \in {"authenticate", "write_pixel"} => mpc' \notin ManagerEnded
      /\ rpc = "sending" =>
           \/ rpc' = "sending" /\ rheld' = rheld
           \/ rpc' = "loop" /\ rx_socket' = rx_socket \o rheld
           \/ rpc' = "loop" /\ mpc \in ManagerEnded ]_vars

\* C32: a failed send of the initial authenticate frame ends the manager at
\* once, before any command or event is handled; a failed send at a later
\* point (a pixel frame, the name request) does not end it.
C32_OnlyInitialSendFailureEnds ==
  [][ /\ (mpc = "send_auth_msg" /\ mpc' # mpc /\ writer' = writer) =>
           mpc' \in ManagerEnded
      /\ mpc \in {"send_pixel", "request_name", "write_pixel"} =>
           mpc' \notin ManagerEnded ]_vars

\* A device that answers every authenticate frame: while a reply is pending
\* and no event is on its way to the manager, the answer to the frame that
\* stored the reply is still to come.  The device may also send any frame
\* unasked (ReadNext), an answer before the command is handled included.
DeviceAnswers ==
  /\ pending_auth_request # 0
  /\ rx_socket = <<>>
  /\ rheld = <<>>
  /\ rpc = "loop"
  /\ \E c \in ConnectionValues :
       rx_socket' = EventsOfFrame([kind |-> "Text", json |-> [connection |-> c]])
  /\ UNCHANGED funs
  /\ UNCHANGED << hpc, connection_status, calls, closeRet, rx_cmd,
                  close_manager, close_receiver, pending_auth_request, mpc,
                  mcur, writer, rpc, rheld, nframes, stream_ended, status,
                  device_name >>

NextAnswer ==
  \/ Authenticate
  \/ AuthenticateReturn
  \/ WritePixel(NextPixel)
  \/ WritePixelReturn
  \/ HandleRecvCmd
  \/ ManagerAuthenticate
  \/ ManagerWritePixel
  \/ HandleRecvSocketMsg
  \/ \E f \in InboundFrames : ReadNext(f)
  \/ ReadNextSend
  \/ DeviceAnswers

FairnessAnswer ==
  /\ WF_vars(AuthenticateReturn)
  /\ WF_vars(WritePixelReturn)
  /\ WF_vars(HandleRecvCmd)
  /\ WF_vars(ManagerAuthenticate)
  /\ WF_vars(ManagerWritePixel)
  /\ WF_vars(HandleRecvSocketMsg)
  /\ WF_vars(ReadNextSend)
  /\ WF_vars(DeviceAnswers)

SpecAnswer == Init /\ [][NextAnswer]_vars /\ FairnessAnswer

\* C33: with a device that answers the authenticate frame, every
\* authenticate() call returns, whether the manager handles the command or
\* an answer of the device first.
C33_AuthenticateReturns ==
  (hpc = "authenticate") ~> (hpc = "idle")

\* two authenticate() calls have returned with the device's answer, and the
\* device has also sent frames unasked
C33_Witness ==
  /\ Cardinality({ i \in AuthCalls : calls[i].ret = "Ok" /\ calls[i].answer # "" }) >= 2
  /\ nframes = MaxFrames
  /\ hpc = "idle"

\* the manager is about to answer a call whose caller has dropped the reply
\* receiver: inside a command handler, or with an event to take for the
\* pending reply
AnswersAbandonedCall ==
  \/ /\ mpc \in {"authenticate", "write_pixel"}
     /\ ~calls[mcur].rx_alive
  \/ /\ mpc = "select"
     /\ rx_socket # <<>>
     /\ pending_auth_request # 0
     /\ ~calls[pending_auth_request].rx_alive

\* C34: fulfilling a reply whose caller has stopped waiting does not end
\* the manager abnormally.
C34_AbandonedReplyDiscarded ==
  [][ AnswersAbandonedCall => mpc' # "panicked" ]_vars

\* C35: once the manager has ended no reply channel is left open, so no
\* caller waits forever: a call whose command was queued or whose reply was
\* pending returns an error, and so does every call made afterwards.
C35_CallsFailAfterManagerEnd ==
  [][ /\ mpc' \in ManagerEnded =>
           \A i \in DOMAIN calls' : calls'[i].reply.tag # "open"
      /\ (mpc \in ManagerEnded /\ Cur' > Cur) =>
           calls'[Cur'].ret = "Err"
      /\ ( /\ mpc \in ManagerEnded
           /\ hpc \in {"authenticate", "write_pixel"}
           /\ hpc' = "idle"
           /\ calls'[Cur].rx_alive
           /\ ~Fulfilled(calls[Cur].reply) ) =>
           calls'[Cur].ret = "Err" ]_vars

\* the manager has ended abnormally while a call made before was waiting
\* for its reply: the reply channel of that call is closed, which completes
\* the caller's await with an error
C35_Witness ==
  /\ mpc = "panicked"
  /\ hpc \in {"authenticate", "write_pixel"}
  /\ calls[Cur].rx_alive
  /\ calls[Cur].reply = SenderDropped

\* Reads on the ended stream, made visible: reader.next() yields None at
\* once, read_next returns Ok(()) and the loop selects again.  In Spec such
\* a read is a step that changes nothing.
ReadNextNone ==
  /\ rpc = "loop"
  /\ stream_ended
  /\ rpc' = "none_read"
  /\ UNCHANGED funs
  /\ UNCHANGED << hpc, connection_status, calls, closeRet, rx_cmd, rx_socket,
                  close_manager, close_receiver, pending_auth_request, mpc,
                  mcur, writer, rheld, nframes, stream_ended, status,
                  device_name >>

\* the next iteration of the receiver's loop
ReadNextAgain ==
  /\ rpc = "none_read"
  /\ rpc' = "loop"
  /\ UNCHANGED funs
  /\ UNCHANGED << hpc, connection_status, calls, closeRet, rx_cmd, rx_socket,
                  close_manager, close_receiver, pending_auth_request, mpc,
                  mcur, writer, rheld, nframes, stream_ended, status,
                  device_name >>

NextEnded ==
  \/ Next
  \/ ReadNextNone
  \/ ReadNextAgain

\* a read that is ready completes and the loop goes on; select! polls its
\* branches in random order, so a close signal that is there in every
\* iteration is eventually taken
FairnessEnded ==
  /\ Fairness
  /\ WF_vars(ReadNextNone)
  /\ WF_vars(ReadNextAgain)
  /\ SF_vars(ReceiverRecvClose)

SpecEnded == Init /\ [][NextEnded]_vars /\ FairnessEnded

\* C36: once the inbound stream has ended the receiver makes only finitely
\* many further read attempts.
C36_FinitelyManyReadsAfterEnd ==
  [](stream_ended => <>[](rpc # "none_read"))

\* a command, an event or a reply is on its way
Undelivered ==
  \/ rx_cmd # <<>>
  \/ rx_socket # <<>>
  \/ rheld # <<>>
  \/ mcur # 0
  \/ hpc \in {"authenticate", "write_pixel"} /\ calls[Cur].reply.tag # "open"

\* a step of the manager, of the receiver's pending send, or of the caller's
\* wait for its reply
TaskStep ==
  \/ HandleRecvCmd
  \/ ManagerAuthenticate
  \/ ManagerWritePixel
  \/ HandleRecvSocketMsg
  \/ ManagerRecvClose
  \/ ManagerCloseWriter
  \/ ReadNextSend
  \/ ReceiverRecvClose
  \/ AuthenticateReturn
  \/ WritePixelReturn

\* C37: no deadlock: while a command, an event or a reply is undelivered,
\* the manager, the receiver or the caller can take a step, however full
\* the two queues are.
C37_NoDeadlock ==
  Undelivered => ENABLED TaskStep

\* both queues are full, the receiver waits to send its event and the
\* caller waits for its reply
C37_Witness ==
  /\ Len(rx_cmd) = ChannelCap
  /\ Len(rx_socket) = ChannelCap
  /\ rpc = "sending"
  /\ hpc \in {"authenticate", "write_pixel"}
  /\ calls[Cur].reply.tag = "open"

\* ========================================================================
\* update.rs, do_update: the caller of the connection.  The connection is
\* opened first; every `return` and every `?` before connection.close()
\* leaves the function with the handle going out of scope.
\* ========================================================================
InitUpdate ==
  /\ hpc = "get_current_track"
  /\ connection_status = "Connected"
  /\ calls = <<>>
  /\ closeRet = "none"
  /\ rx_cmd = <<>>
  /\ rx_socket = <<>>
  /\ close_manager = "armed"
  /\ close_receiver = "armed"
  /\ pending_auth_request = 0
  /\ mpc = "select"
  /\ mcur = 0
  /\ writer = <<>>
  /\ rpc = "loop"
  /\ rheld = <<>>
  /\ nframes = 0
  /\ stream_ended = FALSE
  /\ status = "none"
  /\ device_name = ""
  /\ FunsDone

\* do_update returns before connection.close(): the handle is dropped
ReturnWithoutClose ==
  /\ hpc' = "dropped"
  /\ close_receiver' = DropSignal(close_receiver)
  /\ close_manager' = DropSignal(close_manager)
  /\ UNCHANGED funs
  /\ UNCHANGED << connection_status, calls, closeRet, rx_cmd, rx_socket,
                  pending_auth_request, mpc, mcur, writer, rpc, rheld,
                  nframes, stream_ended, status, device_name >>

\* do_update moves on to its next await
UpdateStep(to) ==
  /\ hpc' = to
  /\ UNCHANGED funs
  /\ UNCHANGED << connection_status, calls, closeRet, rx_cmd, rx_socket,
                  close_manager, close_receiver, pending_auth_request, mpc,
                  mcur, writer, rpc, rheld, nframes, stream_ended, status,
                  device_name >>

\* get_current_track(..).await.map_err(..)? is an Err, or is None:
\* `return Ok(())`
NoTrackOrFetchError == hpc = "get_current_track" /\ ReturnWithoutClose

\* Some(current_track)
TrackPlaying == hpc = "get_current_track" /\ UpdateStep("compare_url")

\* current_url == read_guard.as_str(): `return Ok(())`
ImageUnchanged == hpc = "compare_url" /\ ReturnWithoutClose

\* the url is stored; connection.authenticate() is only created here
ImageChanged == hpc = "compare_url" /\ UpdateStep("get_image")

\* spotify_client.get_image(..).await? is an Err
ImageFetchError == hpc = "get_image" /\ ReturnWithoutClose

\* the image is there
ImageFetched == hpc = "get_image" /\ UpdateStep("idle")

\* auth_future.await? or connection.write_pixel(data).await? is an Err
CallError ==
  /\ hpc = "idle"
  /\ Cur >= 1
  /\ calls[Cur].ret = "Err"
  /\ ReturnWithoutClose

\* the last call returned Ok
LastCallOk == Cur >= 1 /\ calls[Cur].ret = "Ok"

NextUpdate ==
  \/ NoTrackOrFetchError
  \/ TrackPlaying
  \/ ImageUnchanged
  \/ ImageChanged
  \/ ImageFetchError
  \/ ImageFetched
  \/ Cur = 0 /\ Authenticate
  \/ AuthenticateReturn
  \/ LastCallOk /\ Cur < Len(Image) + 1 /\ WritePixel(NextPixel)
  \/ WritePixelReturn
  \/ CallError
  \/ LastCallOk /\ Cur = Len(Image) + 1 /\ Close
  \/ CloseJoinReceiver
  \/ CloseJoinManager
  \/ HandleRecvCmd
  \/ ManagerAuthenticate
  \/ ManagerWritePixel
  \/ HandleRecvSocketMsg
  \/ ManagerRecvClose
  \/ ManagerCloseWriter
  \/ \E f \in InboundFrames : ReadNext(f)
  \/ ReadNextSend
  \/ ReceiverRecvClose
  \/ StreamEnd

SpecUpdate == InitUpdate /\ [][NextUpdate]_vars

\* C38: do_update never returns with a connection it has not closed with
\* close().
C38_ClosedOnEveryReturn ==
  hpc # "dropped"

\* update.rs, start_update: config.size * config.size / 2, in seconds
PollingPeriod(size) == (size * size) \div 2

\* C39: for every pairing code that parses the polling period is at least
\* one second.
C39_PollingPeriodPositive ==
  (parsed # NotCalled /\ parsed.tag = "Ok") => PollingPeriod(parsed.size) >= 1

\* ========================================================================
\* SpotifyAccess::calculate_expiry applied to the values of ExpiresInInputs
\* ========================================================================
\* expires_in is whatever the token response carries: every small value up
\* to LowExpiresIn, the hour Spotify sends, and the ends of the u64 range
LowExpiresIn == 130
ExpiresInInputs ==
  { U64(n) : n \in 0 .. LowExpiresIn } \cup
  { U64(3600), I64Max, AddU64(I64Max, U64(120), 1, 0).limbs, U64Max }

\* Instant::now(): seconds of the monotonic clock
NowInputs == { 0, 86400 }

InitExpiry ==
  /\ expires_in \in ExpiresInInputs
  /\ now \in NowInputs
  /\ expires_at = NotCalled
  /\ ccc = PairingCode
  /\ parsed = from_ccc(PairingCode)
  /\ rgb = << 0, 0, 0 >>
  /\ hsv = << 0, 0, 0 >>
  /\ hpc = "idle"
  /\ connection_status = "none"
  /\ calls = <<>>
  /\ closeRet = "none"
  /\ rx_cmd = <<>>
  /\ rx_socket = <<>>
  /\ close_manager = "armed"
  /\ close_receiver = "armed"
  /\ pending_auth_request = 0
  /\ mpc = "none"
  /\ mcur = 0
  /\ writer = <<>>
  /\ rpc = "none"
  /\ rheld = <<>>
  /\ nframes = 0
  /\ stream_ended = FALSE
  /\ status = "none"
  /\ device_name = ""

\* SpotifyAccess::new: expires_at is calculate_expiry(expires_in)
CalculateExpiry ==
  /\ expires_at = NotCalled
  /\ expires_at' \in calculate_expiry(expires_in, now)
  /\ UNCHANGED << ccc, parsed, rgb, hsv, expires_in, now >>
  /\ UNCHANGED conn

NextExpiry == CalculateExpiry

SpecExpiry == InitExpiry /\ [][NextExpiry]_vars

\* C40: for every expires_in calculate_expiry returns the instant 120
\* seconds before now + expires_in, and expires_in - 120 does not underflow.
C40_ExpiryIs120SecondsEarly ==
  expires_at # NotCalled =>
    /\ SubU64(expires_in, U64(120), 1, 0).borrow = 0
    /\ expires_at.tag = "Ok"
    /\ AddU64(expires_at.instant, U64(120), 1, 0) =
         AddU64(U64(now), expires_in, 1, 0)
====
